---- MODULE Spec2Model ----
(***************************************************************************)
(* hushnote: merge of a speaker timeline with a text timeline              *)
(* (merge_diarization.py), label resolution and multi-format rendering     *)
(* (apply_labels.py).                                                      *)
(*                                                                         *)
(* Times are carried as a whole number of milliseconds t, standing for the *)
(* Python float nearest to t/1000 (what json.loads yields for the decimal  *)
(* literal).  Where the code does float arithmetic on a time (the          *)
(* timestamp formatters) the model does IEEE-754 binary64 arithmetic on    *)
(* that float, bit by bit.                                                 *)
(***************************************************************************)
EXTENDS Integers, Sequences, FiniteSets, TLC

VARIABLES
    pc,             \* "start", then "done" (exit code 0) or "failed" (exit code 1)
    diarization,    \* merge: the document load_json read from diarization_file
    transcription,  \* merge: the document load_json read from transcription_file
    data,           \* apply_labels: the document read from labeled_file
    format,         \* apply_labels: args.format
    lines,          \* apply_labels: the list the renderer built (lines, output_segments)
    output,         \* the contents written to the stage's output file, in order
    speaker_id,     \* get_speaker_name: its arguments
    labels,
    resolved,       \* get_speaker_name: what it returned, and labels after the call
    seconds,        \* argument of format_srt_timestamp / format_vtt_timestamp
    stamps,         \* what the two formatters returned for it
    diarized_file,  \* label: the contents of the file args.diarized_file names
    non_interactive,\* label: args.non_interactive
    speakers,       \* label: the sorted list the prompt loop walks
    samples,        \* label: the quotes last shown (what get_speaker_samples returned)
    response,       \* label: the line the last input() call returned
    num_samples,    \* get_speaker_samples: its arguments beside data and speaker_id
    random_samples,
    find_args,      \* find_speaker_at_time: its arguments
    found           \* find_speaker_at_time: what it returned

vars == <<pc, diarization, transcription, data, format, lines, output,
          speaker_id, labels, resolved, seconds, stamps,
          diarized_file, non_interactive, speakers, samples, response,
          num_samples, random_samples, find_args, found>>

mergeVars == <<diarization, transcription>>
applyVars == <<data, format, lines>>
nameVars == <<speaker_id, labels, resolved>>
stampVars == <<seconds, stamps>>
labelVars == <<diarized_file, non_interactive, speakers, samples, response>>
sampleVars == <<num_samples, random_samples>>
findVars == <<find_args, found>>

(***************************************************************************)
(* Bounds and program constants                                            *)
(***************************************************************************)
MaxMillis == 1100          \* formatter arguments 0 .. MaxMillis milliseconds
MaxIntervals == 2          \* speaker intervals in a diarization file
MaxSegments == 2           \* text segments in a transcription file
MaxRender == 3             \* segments in a labeled file
SegMillis == 1250          \* length of a segment of a labeled file, milliseconds
MaxFind == 3               \* speaker segments given to find_speaker_at_time
MaxQuotes == 5             \* segments of a document given to get_speaker_samples
MaxLabelSegs == 2          \* segments of a diarized file given to the label stage
MantBits == 53             \* significand width of a Python float (binary64)
MilliPerSec == 1000
SecPerHour == 3600
SecPerMin == 60
ExampleMillis == 3725 * 1000 + 250   \* the documented example, 3725.25 s

(***************************************************************************)
(* Python floats.  A float is [neg, ip, fr]: sign, integer part, and the   *)
(* fraction after the binary point as a sequence of limbs of LimbBits bits *)
(* each (no trailing zero limb), so its value is                           *)
(* +/- (ip + SUM fr[j] * Base^-j).                                         *)
(***************************************************************************)
\* Long arithmetic on fractions goes 16 bits at a time.
Base == 2^16

\* number of bits of n >= 0
BitLen(n) == Cardinality({k \in 0..30 : 2^k <= n})

\* fr without its trailing zero limbs
LimbBits == BitLen(Base) - 1

RECURSIVE Trim(_)
Trim(fr) ==
    IF fr = <<>> THEN <<>>
    ELSE IF fr[Len(fr)] = 0 THEN Trim(SubSeq(fr, 1, Len(fr) - 1))
    ELSE fr

\* limb j of fr, zero past its end
Limb(fr, j) == IF j <= Len(fr) THEN fr[j] ELSE 0

Pad(fr, n) == [j \in 1..n |-> Limb(fr, j)]

LongerLen(x, y) == IF Len(x.fr) > Len(y.fr) THEN Len(x.fr) ELSE Len(y.fr)

\* number of zero bits before the first one bit of a non-zero fraction
RECURSIVE LeadingZeros(_)
LeadingZeros(fr) ==
    IF fr = <<>> THEN 0
    ELSE IF fr[1] = 0 THEN LimbBits + LeadingZeros(Tail(fr))
    ELSE LimbBits - BitLen(fr[1])

MkFloat(neg, ip, fr) == [neg |-> neg, ip |-> ip, fr |-> Trim(fr)]

IsZero(x) == x.ip = 0 /\ x.fr = <<>>

\* ip.fr plus one unit of limb i: the carry runs up, at last into ip
RECURSIVE CarryUp(_, _, _)
CarryUp(ip, fr, i) ==
    IF i = 0 THEN [ip |-> ip + 1, fr |-> fr]
    ELSE IF fr[i] + 1 < Base THEN [ip |-> ip, fr |-> [fr EXCEPT ![i] = @ + 1]]
    ELSE CarryUp(ip, [fr EXCEPT ![i] = 0], i - 1)

MkFloatOf(neg, r) == MkFloat(neg, r.ip, r.fr)

\* Round ip.fr to the bit whose weight within limb q + 1 is unit (unit = Base:
\* the last bit of limb q), ties to even.
RoundLimb(neg, ip, fr, sticky, q, unit) ==
    LET v     == fr[q + 1]
        low   == v % unit
        guard == low \div (unit \div 2)
        st    == \/ sticky
                 \/ low % (unit \div 2) # 0
                 \/ \E j \in (q + 2)..Len(fr) : fr[j] # 0
        last  == IF unit < Base THEN (v \div unit) % 2
                 ELSE IF q > 0 THEN fr[q] % 2 ELSE ip % 2
        kept  == SubSeq(fr, 1, q) \o <<v - low>>
    IN  MkFloatOf(neg,
            IF ~(guard = 1 /\ (st \/ last = 1)) THEN [ip |-> ip, fr |-> kept]
            ELSE IF unit = Base THEN CarryUp(ip, kept, q)
            ELSE IF v - low + unit < Base
            THEN [ip |-> ip, fr |-> [kept EXCEPT ![q + 1] = @ + unit]]
            ELSE CarryUp(ip, [kept EXCEPT ![q + 1] = 0], q))

RoundAt(neg, ip, fr, sticky, keep) ==
    IF Len(fr) <= keep \div LimbBits THEN MkFloat(neg, ip, fr)
    ELSE RoundLimb(neg, ip, fr, sticky, keep \div LimbBits,
                   2^(LimbBits - (keep % LimbBits)))

\* Round the exact value ip.fr (plus something below its last bit when
\* sticky) to MantBits significant bits, ties to even.
Round53(neg, ip, fr, sticky) ==
    RoundAt(neg, ip, Trim(fr), sticky,
            IF ip > 0 THEN MantBits - BitLen(ip)
            ELSE LeadingZeros(fr) + MantBits)

\* the first n limbs of the fraction r/d (r < d), and what is left after them
RECURSIVE DivLimbs(_, _, _)
DivLimbs(r, d, n) ==
    IF n = 0 THEN <<>>
    ELSE <<(r * Base) \div d>> \o DivLimbs((r * Base) % d, d, n - 1)

RECURSIVE DivRem(_, _, _)
DivRem(r, d, n) == IF n = 0 THEN r ELSE DivRem((r * Base) % d, d, n - 1)

Abs(n) == IF n < 0 THEN -n ELSE n

\* the float nearest to +/- (ip + r/1000), from the first n limbs of r/1000
FromParts(neg, ip, r, n) ==
    Round53(neg, ip, DivLimbs(r, MilliPerSec, n), DivRem(r, MilliPerSec, n) # 0)

\* The float of the decimal literal t/1000 (correctly rounded, as float()
\* and json.loads do).
FromMillis(t) ==
    FromParts(t < 0, Abs(t) \div MilliPerSec, Abs(t) % MilliPerSec,
              ((MantBits + BitLen(MilliPerSec) + 1) \div LimbBits) + 1)

\* 1 - 0.fr for a non-empty trimmed fr
Complement(fr) ==
    [j \in 1..Len(fr) |-> IF j = Len(fr) THEN Base - fr[j] ELSE Base - 1 - fr[j]]

\* y - m for a float 0 < m < y: y - m.ip - 1 + (1 - 0.fr)
Negated(m, y) ==
    IF m.fr = <<>> THEN Round53(FALSE, y - m.ip, <<>>, FALSE)
    ELSE Round53(FALSE, y - m.ip - 1, Complement(m.fr), FALSE)

\* m = fmod(x, y), then the result takes the sign of the divisor
SignOfDivisor(x, y, m) ==
    IF IsZero(m) THEN MkFloat(FALSE, 0, <<>>)
    ELSE IF ~x.neg THEN m
    ELSE Negated(m, y)

\* x % y for a float x and a positive whole y (float_rem: fmod, then the
\* result takes the sign of the divisor, by one rounded addition)
PyMod(x, y) == SignOfDivisor(x, y, MkFloat(x.neg, x.ip % y, x.fr))

\* int(x // y) for a float x and a positive whole y (float_floor_div)
PyFloorDiv(x, y) ==
    IF ~x.neg THEN x.ip \div y
    ELSE IF IsZero(MkFloat(TRUE, x.ip % y, x.fr)) THEN -(x.ip \div y)
    ELSE -(x.ip \div y) - 1

\* x * k for a float x >= 0 and a positive whole k: the exact product,
\* limb by limb from the low end, rounded once
RECURSIVE MulLimbs(_, _, _, _, _)
MulLimbs(fr, k, i, c, acc) ==
    IF i = 0 THEN [ip |-> c, fr |-> acc]
    ELSE LET v == fr[i] * k + c
         IN  MulLimbs(fr, k, i - 1, v \div Base, <<v % Base>> \o acc)

\* ip + p.ip + 0.(p.fr), rounded
RoundSum(neg, ip, p) == Round53(neg, ip + p.ip, p.fr, FALSE)

PyMul(x, k) == RoundSum(x.neg, x.ip * k, MulLimbs(x.fr, k, Len(x.fr), 0, <<>>))

\* x < y for floats x, y >= 0
LessFloat(x, y) ==
    \/ x.ip < y.ip
    \/ /\ x.ip = y.ip
       /\ \E i \in 1..Len(y.fr) :
            /\ Limb(x.fr, i) < y.fr[i]
            /\ \A j \in 1..(i - 1) : Limb(x.fr, j) = y.fr[j]

RECURSIVE AddLimbs(_, _, _, _, _)
AddLimbs(la, lb, i, c, acc) ==
    IF i = 0 THEN [ip |-> c, fr |-> acc]
    ELSE LET v == la[i] + lb[i] + c
         IN  AddLimbs(la, lb, i - 1, v \div Base, <<v % Base>> \o acc)

AddPadded(x, y, n) ==
    RoundSum(FALSE, x.ip + y.ip, AddLimbs(Pad(x.fr, n), Pad(y.fr, n), n, 0, <<>>))

\* x + y for floats x, y >= 0: the exact sum, rounded once
PyAdd(x, y) == AddPadded(x, y, LongerLen(x, y))

RECURSIVE SubLimbs(_, _, _, _, _)
SubLimbs(la, lb, i, b, acc) ==
    IF i = 0 THEN [ip |-> b, fr |-> acc]
    ELSE LET v == la[i] - lb[i] - b
         IN  IF v < 0 THEN SubLimbs(la, lb, i - 1, 1, <<v + Base>> \o acc)
             ELSE SubLimbs(la, lb, i - 1, 0, <<v>> \o acc)

\* ip - p.ip + 0.(p.fr), rounded
RoundDiff(ip, p) == Round53(FALSE, ip - p.ip, p.fr, FALSE)

SubPadded(x, y, n) ==
    RoundDiff(x.ip - y.ip, SubLimbs(Pad(x.fr, n), Pad(y.fr, n), n, 0, <<>>))

\* x - y for floats x >= y >= 0: the exact difference, rounded once
PySub(x, y) == SubPadded(x, y, LongerLen(x, y))

\* int(x): truncation toward zero
PyInt(x) == IF x.neg THEN -x.ip ELSE x.ip

(***************************************************************************)
(* str.format with the 0Nd format specification                            *)
(***************************************************************************)
Digit(d) == SubSeq("0123456789", d + 1, d + 1)

RECURSIVE Digits(_)
Digits(n) == IF n < 10 THEN Digit(n) ELSE Digits(n \div 10) \o Digit(n % 10)

RECURSIVE ZeroFill(_, _)
ZeroFill(s, w) == IF Len(s) >= w THEN s ELSE ZeroFill("0" \o s, w)

\* f"{n:0wd}": the sign counts toward the width, zeros go after it
PadInt(n, w) ==
    IF n < 0 THEN "-" \o ZeroFill(Digits(-n), w - 1)
    ELSE ZeroFill(Digits(n), w)

\* the four fields both formatters compute from the float s
TimestampFields(s) ==
    [hours   |-> PyFloorDiv(s, SecPerHour),
     minutes |-> PyFloorDiv(PyMod(s, SecPerHour), SecPerMin),
     secs    |-> PyInt(PyMod(s, SecPerMin)),
     millis  |-> PyInt(PyMul(PyMod(s, 1), MilliPerSec))]

FormatFields(f, sep) ==
    PadInt(f.hours, 2) \o ":" \o PadInt(f.minutes, 2) \o ":"
        \o PadInt(f.secs, 2) \o sep \o PadInt(f.millis, 3)

format_srt_timestamp(t) == FormatFields(TimestampFields(FromMillis(t)), ",")

format_vtt_timestamp(t) == FormatFields(TimestampFields(FromMillis(t)), ".")

(***************************************************************************)
(* Python strings and lists                                                *)
(***************************************************************************)
Min(S) == CHOOSE i \in S : \A j \in S : i <= j
Max(S) == CHOOSE i \in S : \A j \in S : j <= i

Char(s, i) == SubSeq(s, i, i)

IsSpace(c) == c \in {" ", "\t", "\n"}

\* str.strip()
Strip(s) ==
    LET keep == {i \in 1..Len(s) : ~IsSpace(Char(s, i))}
    IN  IF keep = {} THEN "" ELSE SubSeq(s, Min(keep), Max(keep))

\* len(s.split()): the maximal runs of non-space characters
WordCount(s) ==
    Cardinality({i \in 1..Len(s) :
        ~IsSpace(Char(s, i)) /\ (i = 1 \/ IsSpace(Char(s, i - 1)))})

\* sep.join(ls)
RECURSIVE Join(_, _)
Join(ls, sep) ==
    IF ls = <<>> THEN ""
    ELSE IF Len(ls) = 1 THEN ls[1]
    ELSE ls[1] \o sep \o Join(Tail(ls), sep)

SeqsUpTo(S, n) == UNION {[1..k -> S] : k \in 0..n}

SpeakerIds(segments) == {segments[i].speaker_id : i \in 1..Len(segments)}

(***************************************************************************)
(* merge_diarization.py                                                    *)
(***************************************************************************)
UNKNOWN == "UNKNOWN"

Zero == MkFloat(FALSE, 0, <<>>)

\* the distance find_speaker_at_time computes from timestamp to segment
Distance(timestamp, segment) ==
    IF timestamp < segment.start
    THEN PySub(FromMillis(segment.start), FromMillis(timestamp))
    ELSE IF timestamp > segment.end
    THEN PySub(FromMillis(timestamp), FromMillis(segment.end))
    ELSE Zero

\* IsCloser with <= where the code has <
IsCloserOrEqual(distance, min_distance) ==
    min_distance = <<>> \/ ~LessFloat(min_distance[1], distance)

\* min_distance is <<>> for float('inf'), else <<distance>>
IsCloser(distance, min_distance) ==
    min_distance = <<>> \/ LessFloat(distance, min_distance[1])

\* The second loop of find_speaker_at_time, from segment i on.
RECURSIVE ClosestSpeaker(_, _, _, _, _)

ClosestStep(timestamp, speaker_segments, i, min_distance, closest_speaker, distance) ==
    IF IsCloser(distance, min_distance)
    THEN ClosestSpeaker(timestamp, speaker_segments, i + 1,
                        <<distance>>, speaker_segments[i].speaker_id)
    ELSE ClosestSpeaker(timestamp, speaker_segments, i + 1,
                        min_distance, closest_speaker)

ClosestSpeaker(timestamp, speaker_segments, i, min_distance, closest_speaker) ==
    IF i > Len(speaker_segments) THEN closest_speaker
    ELSE ClosestStep(timestamp, speaker_segments, i, min_distance, closest_speaker,
                     Distance(timestamp, speaker_segments[i]))

\* find_speaker_at_time whose first loop runs to its end, so that the last
\* containing segment decides
find_speaker_at_time_last(timestamp, speaker_segments) ==
    LET hits == {i \in 1..Len(speaker_segments) :
                    /\ speaker_segments[i].start <= timestamp
                    /\ timestamp <= speaker_segments[i].end}
    IN  IF hits # {} THEN speaker_segments[Max(hits)].speaker_id
        ELSE ClosestSpeaker(timestamp, speaker_segments, 1, <<>>, UNKNOWN)

find_speaker_at_time(timestamp, speaker_segments) ==
    LET hits == {i \in 1..Len(speaker_segments) :
                    /\ speaker_segments[i].start <= timestamp
                    /\ timestamp <= speaker_segments[i].end}
    IN  IF hits # {} THEN speaker_segments[Min(hits)].speaker_id
        ELSE ClosestSpeaker(timestamp, speaker_segments, 1, <<>>, UNKNOWN)

\* MergedSegments built by inserting each segment at the front of the list
MergedSegmentsPrepended(speaker_segments, transcription_segments) ==
    SubSeq([i \in 1..Len(transcription_segments) |->
        LET trans_seg ==
                transcription_segments[Len(transcription_segments) + 1 - i]
        IN  [speaker_id |-> find_speaker_at_time(trans_seg.start, speaker_segments),
             start      |-> trans_seg.start,
             end        |-> trans_seg.end,
             text       |-> trans_seg.text]], 1, Len(transcription_segments))

\* the first loop of merge_diarization_transcription
MergedSegments(speaker_segments, transcription_segments) ==
    SubSeq([i \in 1..Len(transcription_segments) |->
        LET trans_seg == transcription_segments[i]
        IN  [speaker_id |-> find_speaker_at_time(trans_seg.start, speaker_segments),
             start      |-> trans_seg.start,
             end        |-> trans_seg.end,
             text       |-> trans_seg.text]], 1, Len(transcription_segments))

NewStats == [total_time |-> Zero, segment_count |-> 0, word_count |-> 0]

Duration(seg) == PySub(FromMillis(seg.end), FromMillis(seg.start))

\* AddSegment with total_time assigned (=) where the code accumulates (+=)
AddSegmentAssigned(old, seg) ==
    [total_time    |-> Duration(seg),
     segment_count |-> old.segment_count + 1,
     word_count    |-> old.word_count + WordCount(seg.text)]

\* speaker_stats[speaker] after one more segment of that speaker
AddSegment(old, seg) ==
    [total_time    |-> PyAdd(old.total_time, Duration(seg)),
     segment_count |-> old.segment_count + 1,
     word_count    |-> old.word_count + WordCount(seg.text)]

StatsOf(speaker_stats, speaker) ==
    IF speaker \in DOMAIN speaker_stats THEN speaker_stats[speaker] ELSE NewStats

\* the second loop of merge_diarization_transcription, from segment i on
RECURSIVE SpeakerStats(_, _, _)
SpeakerStats(merged_segments, i, speaker_stats) ==
    IF i > Len(merged_segments) THEN speaker_stats
    ELSE SpeakerStats(merged_segments, i + 1,
             [k \in {merged_segments[i].speaker_id} |->
                 AddSegment(StatsOf(speaker_stats, k), merged_segments[i])]
               @@ speaker_stats)

MergedDocument(d, merged_segments) ==
    [num_speakers  |-> d.num_speakers,
     segments      |-> merged_segments,
     speaker_stats |-> SpeakerStats(merged_segments, 1, <<>>),
     labels        |-> <<>>,
     source        |-> "merged"]

merge_diarization_transcription(d, t) ==
    MergedDocument(d, MergedSegments(d.segments, t.segments))

\* main of merge_diarization.py: load both files, merge, save; an exception
\* (here the KeyError of a document without "segments") exits with code 1.
MergeMain ==
    /\ pc = "start"
    /\ \/ /\ "segments" \in DOMAIN diarization
          /\ "segments" \in DOMAIN transcription
          /\ output' = Append(output,
                 merge_diarization_transcription(diarization, transcription))
          /\ pc' = "done"
       \/ /\ ~("segments" \in DOMAIN diarization
                /\ "segments" \in DOMAIN transcription)
          /\ pc' = "failed"
          /\ UNCHANGED output
    /\ UNCHANGED <<mergeVars, applyVars, nameVars, stampVars, labelVars, sampleVars, findVars>>

(***************************************************************************)
(* The files the merge stage is given.  A diarization file is what         *)
(* diarize_audio built from the speaker turns; a transcription file is     *)
(* what transcribe_audio built; either path may also name another JSON     *)
(* document.                                                               *)
(***************************************************************************)
Speakers == {"SPEAKER_00", "SPEAKER_01"}

Spans == {<<0, 1000>>, <<500, 1500>>, <<2000, 2500>>}

SpeakerIntervals ==
    {[speaker_id |-> sp, start |-> sn[1], end |-> sn[2]] :
        sp \in Speakers, sn \in Spans}

TextSpans == {<<0, 800>>, <<1000, 2200>>, <<1800, 1900>>}

TextSegments ==
    {[start |-> sn[1], end |-> sn[2], text |-> tx] :
        sn \in TextSpans, tx \in {"", "so it goes"}}

diarize_audio(segments) ==
    [segments |-> segments, num_speakers |-> Cardinality(SpeakerIds(segments))]

transcribe_audio(segments) == [segments |-> segments]

OtherJson == [version |-> "1.0"]

Idle == [version |-> "1.0"]

IdleApply == data = Idle /\ format = "" /\ lines = <<>>
IdleMerge == diarization = Idle /\ transcription = Idle
IdleName == speaker_id = "" /\ labels = <<>> /\ resolved = [name |-> "", labels |-> <<>>]
IdleStamp == seconds = 0 /\ stamps = [srt |-> "", vtt |-> ""]
IdleLabel ==
    /\ diarized_file = Idle /\ non_interactive = FALSE /\ speakers = <<>>
    /\ samples = <<>> /\ response = ""
IdleSample == num_samples = 0 /\ random_samples = FALSE
IdleFind == find_args = [timestamp |-> 0, speaker_segments |-> <<>>] /\ found = ""
IdleOthers == IdleLabel /\ IdleSample /\ IdleFind

InitMerge ==
    /\ pc = "start"
    /\ diarization \in
         {diarize_audio(s) : s \in SeqsUpTo(SpeakerIntervals, MaxIntervals)}
             \cup {OtherJson}
    /\ transcription \in
         {transcribe_audio(s) : s \in SeqsUpTo(TextSegments, MaxSegments)}
             \cup {OtherJson}
    /\ output = <<>>
    /\ IdleApply /\ IdleName /\ IdleStamp /\ IdleOthers

NextMerge == MergeMain

SpecMerge == InitMerge /\ [][NextMerge]_vars

(***************************************************************************)
(* apply_labels.py                                                         *)
(***************************************************************************)
\* get_speaker_name written with labels.setdefault: an absent id is entered
\* into the mapping under its own name
get_speaker_name_setdefault(sid, lbls) ==
    [name   |-> IF sid \in DOMAIN lbls
                THEN IF "name" \in DOMAIN lbls[sid] THEN lbls[sid].name ELSE sid
                ELSE sid,
     labels |-> lbls @@ [k \in {sid} |-> [name |-> sid]]]

\* The name returned, with the labels mapping as the call leaves it.
get_speaker_name(sid, lbls) ==
    [name   |-> IF sid \in DOMAIN lbls
                THEN IF "name" \in DOMAIN lbls[sid] THEN lbls[sid].name ELSE sid
                ELSE sid,
     labels |-> lbls]

Formats == {"txt", "md", "json", "srt", "vtt"}

\* TextLines with the blocks keyed on the speaker id where the code keys
\* them on the resolved name
RECURSIVE TextLinesById(_, _, _, _, _, _)
TextLinesById(segments, lbls, fmt, i, current_speaker, acc) ==
    IF i > Len(segments) THEN acc
    ELSE LET seg == segments[i]
             name == get_speaker_name(seg.speaker_id, lbls).name
             text == Strip(seg.text)
             head == IF fmt = "md" THEN "\n**" \o name \o "**: " \o text
                     ELSE "\n[" \o name \o "] " \o text
         IN  TextLinesById(segments, lbls, fmt, i + 1,
                 IF text = "" THEN current_speaker ELSE <<seg.speaker_id>>,
                 IF text = "" THEN acc
                 ELSE IF <<seg.speaker_id>> # current_speaker THEN Append(acc, head)
                 ELSE Append(acc, text))

\* TextLines with current_speaker assigned before the empty-text test, so
\* that a dropped segment changes it too
RECURSIVE TextLinesTrackingDropped(_, _, _, _, _, _)
TextLinesTrackingDropped(segments, lbls, fmt, i, current_speaker, acc) ==
    IF i > Len(segments) THEN acc
    ELSE LET seg == segments[i]
             name == get_speaker_name(seg.speaker_id, lbls).name
             text == Strip(seg.text)
             head == IF fmt = "md" THEN "\n**" \o name \o "**: " \o text
                     ELSE "\n[" \o name \o "] " \o text
         IN  TextLinesTrackingDropped(segments, lbls, fmt, i + 1, <<name>>,
                 IF text = "" THEN acc
                 ELSE IF <<name>> # current_speaker THEN Append(acc, head)
                 ELSE Append(acc, text))

\* the txt / md loop; current_speaker is <<>> for None, else <<name>>
RECURSIVE TextLines(_, _, _, _, _, _)
TextLines(segments, lbls, fmt, i, current_speaker, acc) ==
    IF i > Len(segments) THEN acc
    ELSE LET seg == segments[i]
             name == get_speaker_name(seg.speaker_id, lbls).name
             text == Strip(seg.text)
             head == IF fmt = "md" THEN "\n**" \o name \o "**: " \o text
                     ELSE "\n[" \o name \o "] " \o text
         IN  TextLines(segments, lbls, fmt, i + 1,
                 IF text = "" THEN current_speaker ELSE <<name>>,
                 IF text = "" THEN acc
                 ELSE IF <<name>> # current_speaker THEN Append(acc, head)
                 ELSE Append(acc, text))

\* the json loop
JsonSegments(segments, lbls) ==
    SubSeq([i \in 1..Len(segments) |->
               [speaker    |-> get_speaker_name(segments[i].speaker_id, lbls).name,
                speaker_id |-> segments[i].speaker_id,
                start      |-> segments[i].start,
                end        |-> segments[i].end,
                text       |-> segments[i].text]],
           1, Len(segments))

\* the srt loop: i is the index enumerate(segments, 1) gives the segment
RECURSIVE SrtLines(_, _, _, _)
SrtLines(segments, lbls, i, acc) ==
    IF i > Len(segments) THEN acc
    ELSE LET seg == segments[i]
             name == get_speaker_name(seg.speaker_id, lbls).name
             text == Strip(seg.text)
         IN  SrtLines(segments, lbls, i + 1,
                 IF text = "" THEN acc
                 ELSE acc \o << Digits(i),
                                format_srt_timestamp(seg.start) \o " --> "
                                    \o format_srt_timestamp(seg.end),
                                "[" \o name \o "] " \o text,
                                "" >>)

\* the vtt loop
RECURSIVE VttLines(_, _, _, _)
VttLines(segments, lbls, i, acc) ==
    IF i > Len(segments) THEN acc
    ELSE LET seg == segments[i]
             name == get_speaker_name(seg.speaker_id, lbls).name
             text == Strip(seg.text)
         IN  VttLines(segments, lbls, i + 1,
                 IF text = "" THEN acc
                 ELSE acc \o << format_vtt_timestamp(seg.start) \o " --> "
                                    \o format_vtt_timestamp(seg.end),
                                "[" \o name \o "] " \o text,
                                "" >>)

HasTimes(seg) == "start" \in DOMAIN seg /\ "end" \in DOMAIN seg

Survives(seg) == Strip(seg.text) # ""

\* seg["start"] or seg["end"] of a segment without that key: KeyError
RaisesKeyError(segments, fmt) ==
    \E i \in 1..Len(segments) :
        /\ ~HasTimes(segments[i])
        /\ \/ fmt = "json"
           \/ fmt \in {"srt", "vtt"} /\ Survives(segments[i])

LabelsOf(d) == IF "labels" \in DOMAIN d THEN d.labels ELSE <<>>

\* the list the renderer builds
RenderLines(segments, lbls, fmt) ==
    CASE fmt \in {"txt", "md"} -> TextLines(segments, lbls, fmt, 1, <<>>, <<>>)
      [] fmt = "json" -> JsonSegments(segments, lbls)
      [] fmt = "srt"  -> SrtLines(segments, lbls, 1, <<>>)
      [] fmt = "vtt"  -> VttLines(segments, lbls, 1, <<"WEBVTT", "">>)

\* d.get(key): <<>> for None, else <<value>>
Get(d, key) == IF key \in DOMAIN d THEN <<d[key]>> ELSE <<>>

\* the value returned, from the list built; json.dumps of a dict is kept as
\* the dict
RenderText(d, fmt, ls) ==
    CASE fmt \in {"txt", "md"} -> Strip(Join(ls, " "))
      [] fmt = "json" ->
           [audio_file   |-> Get(d, "audio_file"),
            duration     |-> Get(d, "duration"),
            language     |-> Get(d, "language"),
            num_speakers |-> Get(d, "num_speakers"),
            segments     |-> ls,
            labels       |-> LabelsOf(d)]
      [] fmt \in {"srt", "vtt"} -> Join(ls, "\n")

Rendered(d, fmt, ls) ==
    [raised |-> FALSE, lines |-> ls, text |-> RenderText(d, fmt, ls)]

\* What apply_labels_to_transcript returns (text), with the list it built
\* (lines), unless it raised.
apply_labels_to_transcript(d, fmt) ==
    IF RaisesKeyError(d.segments, fmt)
    THEN [raised |-> TRUE, lines |-> <<>>, text |-> ""]
    ELSE Rendered(d, fmt, RenderLines(d.segments, LabelsOf(d), fmt))

\* load_labeled_json: "segments" not in data or not data["segments"]
NoSegments(d) == IF "segments" \in DOMAIN d THEN d.segments = <<>> ELSE TRUE

\* main of apply_labels.py: load_labeled_json exits with code 1 on a
\* document without segments; an exception while rendering exits with code
\* 1; else the transcript is saved.
ApplyMain ==
    /\ pc = "start"
    /\ \/ /\ NoSegments(data)
          /\ pc' = "failed"
          /\ UNCHANGED <<format, lines, output>>
       \/ /\ ~NoSegments(data)
          /\ \E f \in Formats :
                \E r \in {apply_labels_to_transcript(data, f)} :
                    /\ format' = f
                    /\ lines' = r.lines
                    /\ IF r.raised
                       THEN pc' = "failed" /\ UNCHANGED output
                       ELSE pc' = "done" /\ output' = Append(output, r.text)
    /\ UNCHANGED <<data, mergeVars, nameVars, stampVars, labelVars, sampleVars, findVars>>

(***************************************************************************)
(* The labeled files the render stage is given.  Segment i spans           *)
(* (i-1)*SegMillis .. i*SegMillis; the first segment may instead start     *)
(* before zero, or lack its start or its end.                              *)
(***************************************************************************)
RenderTexts == {" ", "hi", " ok "}

Shapes == {"ok", "negative", "no_start", "no_end"}

Manual(n) == [name |-> n, source |-> "manual"]
Skipped(sid) == [name |-> sid, source |-> "skipped"]

RenderLabels ==
    { <<>>,
      [k \in {"SPEAKER_00"} |-> Manual("Alice")],
      [k \in Speakers |-> Manual("Alice")],
      [k \in Speakers |-> IF k = "SPEAKER_00" THEN Manual("Alice") ELSE Skipped(k)] }

RenderSegment(i, st, shape) ==
    LET times == CASE shape = "ok" ->
                        [start |-> (i - 1) * SegMillis, end |-> i * SegMillis]
                   [] shape = "negative" ->
                        [start |-> 0 - SegMillis, end |-> i * SegMillis]
                   [] shape = "no_start" -> [end |-> i * SegMillis]
                   [] shape = "no_end" -> [start |-> (i - 1) * SegMillis]
    IN  [k \in {"speaker_id", "text"} |-> IF k = "speaker_id" THEN st[1] ELSE st[2]]
            @@ times

RenderSegments ==
    { [i \in 1..Len(f) |-> RenderSegment(i, f[i], IF i = 1 THEN shape ELSE "ok")] :
        f \in SeqsUpTo(Speakers \X RenderTexts, MaxRender), shape \in Shapes }

InitApply ==
    /\ pc = "start"
    /\ data \in
         { [version |-> "1.0", audio_file |-> "meeting.wav",
            num_speakers |-> Cardinality(SpeakerIds(s)),
            segments |-> s, labels |-> l, source |-> "merged"] :
              s \in RenderSegments, l \in RenderLabels } \cup {OtherJson}
    /\ format = ""
    /\ lines = <<>>
    /\ output = <<>>
    /\ IdleMerge /\ IdleName /\ IdleStamp /\ IdleOthers

NextApply == ApplyMain

SpecApply == InitApply /\ [][NextApply]_vars

(***************************************************************************)
(* get_speaker_name applied to one speaker_id and one labels mapping       *)
(***************************************************************************)
Ids == Speakers \cup {UNKNOWN}

LabelEntries ==
    {Manual(n) : n \in {"Alice", "Bob"}} \cup {Skipped(sid) : sid \in Ids}
        \cup {[source |-> "manual"]}

LabelMaps ==
    { m \in UNION {[D -> LabelEntries] : D \in SUBSET Ids} :
        \A sid \in DOMAIN m : m[sid].source = "skipped" => m[sid].name = sid }

InitResolve ==
    /\ pc = "start"
    /\ speaker_id \in Ids
    /\ labels \in LabelMaps
    /\ resolved = [name |-> "", labels |-> <<>>]
    /\ output = <<>>
    /\ IdleMerge /\ IdleApply /\ IdleStamp /\ IdleOthers

ResolveName ==
    /\ pc = "start"
    /\ resolved' = get_speaker_name(speaker_id, labels)
    /\ pc' = "done"
    /\ UNCHANGED <<speaker_id, labels, output, mergeVars, applyVars, stampVars,
                   labelVars, sampleVars, findVars>>

NextResolve == ResolveName

SpecResolve == InitResolve /\ [][NextResolve]_vars

(***************************************************************************)
(* The timestamp formatters applied to one argument                        *)
(***************************************************************************)
FormatArgs == (0..MaxMillis) \cup {ExampleMillis}

InitFormat ==
    /\ pc = "start"
    /\ seconds \in FormatArgs
    /\ stamps = [srt |-> "", vtt |-> ""]
    /\ output = <<>>
    /\ IdleMerge /\ IdleApply /\ IdleName /\ IdleOthers

FormatTimestamp ==
    /\ pc = "start"
    /\ stamps' = [srt |-> format_srt_timestamp(seconds),
                  vtt |-> format_vtt_timestamp(seconds)]
    /\ pc' = "done"
    /\ UNCHANGED <<seconds, output, mergeVars, applyVars, nameVars,
                   labelVars, sampleVars, findVars>>

NextFormat == FormatTimestamp

SpecFormat == InitFormat /\ [][NextFormat]_vars

(***************************************************************************)
(* find_speaker_at_time applied to one timestamp and one list of speaker   *)
(* segments                                                                *)
(***************************************************************************)
FindSpans ==
    {<<0, 1000>>, <<500, 1500>>, <<2000, 2500>>, <<1600, 1700>>, <<1900, 2000>>}

FindIntervals ==
    {[speaker_id |-> sp, start |-> sn[1], end |-> sn[2]] :
        sp \in Speakers, sn \in FindSpans}

FindTimes == {250, 1000, 1750, 1800, 3000}

InitFind ==
    /\ pc = "start"
    /\ find_args \in [timestamp : FindTimes,
                      speaker_segments : SeqsUpTo(FindIntervals, MaxFind)]
    /\ found = ""
    /\ output = <<>>
    /\ IdleMerge /\ IdleApply /\ IdleName /\ IdleStamp
    /\ IdleLabel /\ IdleSample

FindSpeaker ==
    /\ pc = "start"
    /\ found' = find_speaker_at_time(find_args.timestamp, find_args.speaker_segments)
    /\ pc' = "done"
    /\ UNCHANGED <<find_args, output, mergeVars, applyVars, nameVars, stampVars,
                   labelVars, sampleVars>>

NextFind == FindSpeaker

SpecFind == InitFind /\ [][NextFind]_vars

(***************************************************************************)
(* label.py: get_speaker_samples                                           *)
(***************************************************************************)
\* speaker_segments: the speaker's segments whose stripped text is not empty
QuotableSegments(d, sid) ==
    SelectSeq(d.segments,
              LAMBDA seg : seg.speaker_id = sid /\ Strip(seg.text) # "")

\* what random.sample(population, k) may return: k elements at distinct
\* positions, in any order
RandomSample(population, k) ==
    { [i \in 1..k |-> population[f[i]]] :
        f \in { g \in [1..k -> 1..Len(population)] :
                   \A a, b \in 1..k : a # b => g[a] # g[b] } }

\* PositionalSamples with the middle taken at position count // 2 counted
\* from one
PositionalSamplesFromOne(speaker_segments, n) ==
    IF Len(speaker_segments) >= n
    THEN << speaker_segments[1],
            speaker_segments[Len(speaker_segments) \div 2],
            speaker_segments[Len(speaker_segments)] >>
    ELSE SubSeq(speaker_segments, 1, Min({n, Len(speaker_segments)}))

\* the samples from beginning, middle and end: Python index count // 2 is
\* position count // 2 + 1
PositionalSamples(speaker_segments, n) ==
    IF Len(speaker_segments) >= n
    THEN << speaker_segments[1],
            speaker_segments[(Len(speaker_segments) \div 2) + 1],
            speaker_segments[Len(speaker_segments)] >>
    ELSE SubSeq(speaker_segments, 1, Min({n, Len(speaker_segments)}))

SamplesOf(speaker_segments, n, random) ==
    IF speaker_segments = <<>> THEN {<<>>}
    ELSE IF random
    THEN IF Len(speaker_segments) <= n THEN {speaker_segments}
         ELSE RandomSample(speaker_segments, n)
    ELSE {PositionalSamples(speaker_segments, n)}

\* the lists get_speaker_samples may return (one list unless it draws at
\* random)
get_speaker_samples(d, sid, n, random) ==
    SamplesOf(QuotableSegments(d, sid), n, random)

\* Documents of up to MaxQuotes segments; the two calls the prompt loop
\* makes (3 positional, 5 random) and a random draw of 3.
QuoteSegments ==
    { [i \in 1..Len(f) |-> RenderSegment(i, f[i], "ok")] :
        f \in SeqsUpTo(Speakers \X {" ", "hi"}, MaxQuotes) }

SampleCalls == {<<3, FALSE>>, <<3, TRUE>>, <<5, TRUE>>}

InitSamples ==
    /\ pc = "start"
    /\ data \in {[segments |-> sg] : sg \in QuoteSegments}
    /\ speaker_id \in {"SPEAKER_00", UNKNOWN}
    /\ \E call \in SampleCalls :
         num_samples = call[1] /\ random_samples = call[2]
    /\ samples = <<>>
    /\ format = "" /\ lines = <<>> /\ output = <<>>
    /\ labels = <<>> /\ resolved = [name |-> "", labels |-> <<>>]
    /\ diarized_file = Idle /\ non_interactive = FALSE /\ speakers = <<>>
    /\ response = ""
    /\ IdleMerge /\ IdleStamp /\ IdleFind

GetSamples ==
    /\ pc = "start"
    /\ samples' \in get_speaker_samples(data, speaker_id, num_samples, random_samples)
    /\ pc' = "done"
    /\ UNCHANGED <<data, format, lines, output, speaker_id, labels, resolved,
                   diarized_file, non_interactive, speakers, response,
                   mergeVars, stampVars, sampleVars, findVars>>

NextSamples == GetSamples

SpecSamples == InitSamples /\ [][NextSamples]_vars

(***************************************************************************)
(* label.py: the label stage.  A step runs from one input() call to the    *)
(* next; labeled_at, email and role of a label entry are left out.         *)
(***************************************************************************)
\* the characters of the model in code point order
CodeOrder == " 0123456789ABCDEFGHIJKLMNOPQRSTUVWXYZ_abcdefghijklmnopqrstuvwxyz"

Rank(c) == CHOOSE i \in 1..Len(CodeOrder) : Char(CodeOrder, i) = c

\* a < b for Python strings
RECURSIVE StrLess(_, _)
StrLess(a, b) ==
    IF b = "" THEN FALSE
    ELSE IF a = "" THEN TRUE
    ELSE IF Char(a, 1) # Char(b, 1) THEN Rank(Char(a, 1)) < Rank(Char(b, 1))
    ELSE StrLess(SubSeq(a, 2, Len(a)), SubSeq(b, 2, Len(b)))

\* the strings of S from the greatest down
RECURSIVE Descending(_)
Descending(S) ==
    IF S = {} THEN <<>>
    ELSE LET greatest == CHOOSE x \in S : \A y \in S \ {x} : StrLess(y, x)
         IN  <<greatest>> \o Descending(S \ {greatest})

\* sorted(S) for a set of strings
RECURSIVE Sorted(_)
Sorted(S) ==
    IF S = {} THEN <<>>
    ELSE LET least == CHOOSE x \in S : \A y \in S \ {x} : StrLess(x, y)
         IN  <<least>> \o Sorted(S \ {least})

\* the lower case letter of each upper case letter
LowerTable ==
    [c \in {Char(CodeOrder, i) : i \in 12..37} |-> Char(CodeOrder, Rank(c) + 27)]

LowerChar(c) == IF c \in DOMAIN LowerTable THEN LowerTable[c] ELSE c

\* str.lower()
RECURSIVE Lower(_)
Lower(str) ==
    IF str = "" THEN ""
    ELSE LowerChar(Char(str, 1)) \o Lower(SubSeq(str, 2, Len(str)))

\* load_diarized_json exits with code 1
LoadFails(d) ==
    IF NoSegments(d) THEN TRUE ELSE "text" \notin DOMAIN d.segments[1]

\* SessionLabels starting from an empty mapping
FreshLabels(d) == <<>>

\* labels = data.get("labels", {})
SessionLabels(d) == IF "labels" \in DOMAIN d THEN d.labels ELSE <<>>

\* labels[speaker_id] = entry
Put(lbls, sid, entry) == [k \in {sid} |-> entry] @@ lbls

\* data while the loop runs: labels is data["labels"] itself when the
\* document has that key, so an assignment into labels shows in data
Aliased(d, lbls) == IF "labels" \in DOMAIN d THEN [d EXCEPT !.labels = lbls] ELSE d

\* data returned without the assignment of line 194
Unassigned(d, lbls) == d

\* data["labels"] = labels
Labeled(d, lbls) ==
    [k \in DOMAIN d \cup {"labels"} |-> IF k = "labels" THEN lbls ELSE d[k]]

\* the place of the current speaker in speakers
Position == CHOOSE i \in 1..Len(speakers) : speakers[i] = speaker_id

\* After labels[speaker_id] was assigned: the loop goes to the next speaker
\* and shows its quotes, or ends, and main saves the document.
Advance(lbls) ==
    /\ labels' = lbls
    /\ IF Position < Len(speakers)
       THEN /\ data' = Aliased(data, lbls)
            /\ speaker_id' = speakers[Position + 1]
            /\ samples' \in get_speaker_samples(data, speakers[Position + 1], 3, FALSE)
            /\ pc' = "prompt"
            /\ UNCHANGED output
       ELSE /\ data' = Labeled(data, lbls)
            /\ output' = Append(output, Labeled(data, lbls))
            /\ pc' = "done"
            /\ UNCHANGED <<speaker_id, samples>>

\* what the user may type at "Who is ...?" and at "Skip this speaker?"
PromptLines == {"Alice", " Bob ", "m", "M", "", " "}
SkipLines == {"y", " Y", "n", ""}

otherVars == <<format, lines, resolved, mergeVars, stampVars, sampleVars, findVars>>

\* main up to the first prompt, or to its end when there is none
LabelMain ==
    /\ pc = "start"
    /\ \/ /\ LoadFails(diarized_file)
          /\ pc' = "failed"
          /\ UNCHANGED <<data, labels, speakers, speaker_id, samples, output>>
       \/ /\ ~LoadFails(diarized_file)
          /\ non_interactive
          /\ data' = diarized_file
          /\ output' = Append(output, diarized_file)
          /\ pc' = "done"
          /\ UNCHANGED <<labels, speakers, speaker_id, samples>>
       \/ /\ ~LoadFails(diarized_file)
          /\ ~non_interactive
          /\ data' = diarized_file
          /\ speakers' = Sorted(SpeakerIds(diarized_file.segments))
          /\ labels' = SessionLabels(diarized_file)
          /\ speaker_id' = speakers'[1]
          /\ samples' \in get_speaker_samples(diarized_file, speakers'[1], 3, FALSE)
          /\ pc' = "prompt"
          /\ UNCHANGED output
    /\ UNCHANGED <<diarized_file, non_interactive, response, otherVars>>

\* response 'm' or 'M': more quotes, drawn at random
ShowMore ==
    /\ pc = "prompt"
    /\ \E line \in PromptLines :
         /\ Lower(Strip(line)) = "m"
         /\ response' = line
    /\ samples' \in get_speaker_samples(data, speaker_id, 5, TRUE)
    /\ UNCHANGED <<pc, data, labels, speakers, speaker_id, output,
                   diarized_file, non_interactive, otherVars>>

\* a name: the entry is assigned
EnterName ==
    /\ pc = "prompt"
    /\ \E line \in PromptLines :
         \E name \in {Strip(line)} :
            /\ Lower(name) # "m"
            /\ name # ""
            /\ response' = line
            /\ Advance(Put(labels, speaker_id, Manual(name)))
    /\ UNCHANGED <<speakers, diarized_file, non_interactive, otherVars>>

\* EmptyResponse taking the empty line for the skip itself
EmptyResponseSkips ==
    /\ pc = "prompt"
    /\ \E line \in PromptLines :
         /\ Strip(line) = ""
         /\ response' = line
    /\ Advance(Put(labels, speaker_id, Skipped(speaker_id)))
    /\ UNCHANGED <<speakers, diarized_file, non_interactive, otherVars>>

\* an empty response: "Skip this speaker? (y/n)" is asked
EmptyResponse ==
    /\ pc = "prompt"
    /\ \E line \in PromptLines :
         /\ Strip(line) = ""
         /\ response' = line
    /\ pc' = "confirm"
    /\ UNCHANGED <<data, labels, speakers, speaker_id, samples, output,
                   diarized_file, non_interactive, otherVars>>

\* skip == 'y': the skipped entry is assigned
ConfirmSkip ==
    /\ pc = "confirm"
    /\ \E line \in SkipLines :
         /\ Lower(Strip(line)) = "y"
         /\ response' = line
    /\ Advance(Put(labels, speaker_id, Skipped(speaker_id)))
    /\ UNCHANGED <<speakers, diarized_file, non_interactive, otherVars>>

\* any other answer: the loop prompts for the same speaker again
DeclineSkip ==
    /\ pc = "confirm"
    /\ \E line \in SkipLines :
         /\ Lower(Strip(line)) # "y"
         /\ response' = line
    /\ pc' = "prompt"
    /\ UNCHANGED <<data, labels, speakers, speaker_id, samples, output,
                   diarized_file, non_interactive, otherVars>>

\* Interrupt with the document as labelled so far saved on the way out
InterruptSaving ==
    /\ pc \in {"prompt", "confirm"}
    /\ pc' = "failed"
    /\ output' = Append(output, Labeled(data, labels))
    /\ UNCHANGED <<data, labels, speakers, speaker_id, samples, response,
                   diarized_file, non_interactive, otherVars>>

\* KeyboardInterrupt or EOFError at either input(): sys.exit(1)
Interrupt ==
    /\ pc \in {"prompt", "confirm"}
    /\ pc' = "failed"
    /\ UNCHANGED <<data, labels, speakers, speaker_id, samples, response, output,
                   diarized_file, non_interactive, otherVars>>

(***************************************************************************)
(* The files the label stage is given: a merged document of up to          *)
(* MaxLabelSegs segments, without labels, with an empty mapping, or with   *)
(* the mapping an earlier run left (which may name a speaker no segment    *)
(* has); a document whose first segment has no text; another JSON document.*)
(***************************************************************************)
LabelSegments ==
    { [i \in 1..Len(f) |-> RenderSegment(i, f[i], "ok")] :
        f \in SeqsUpTo(Speakers \X {" ", "hi"}, MaxLabelSegs) }

EarlierLabels ==
    { <<>>,
      [k \in {"SPEAKER_00"} |-> Manual("Bob")],
      [k \in {"SPEAKER_00", "SPEAKER_09"} |->
          IF k = "SPEAKER_00" THEN Skipped(k) ELSE Manual("Zed")] }

LabelFiles ==
    {[version |-> "1.0", segments |-> sg] : sg \in LabelSegments}
      \cup {[version |-> "1.0", segments |-> sg, labels |-> l] :
              sg \in LabelSegments, l \in EarlierLabels}
      \cup {[version |-> "1.0",
             segments |-> <<[speaker_id |-> "SPEAKER_00", start |-> 0, end |-> SegMillis]>>],
            OtherJson}

InitLabel ==
    /\ pc = "start"
    /\ diarized_file \in LabelFiles
    /\ non_interactive \in BOOLEAN
    /\ data = Idle
    /\ speakers = <<>> /\ samples = <<>> /\ response = ""
    /\ format = "" /\ lines = <<>> /\ output = <<>>
    /\ IdleMerge /\ IdleName /\ IdleStamp /\ IdleSample /\ IdleFind

NextLabel ==
    \/ LabelMain
    \/ ShowMore
    \/ EnterName
    \/ EmptyResponse
    \/ ConfirmSkip
    \/ DeclineSkip
    \/ Interrupt

SpecLabel == InitLabel /\ [][NextLabel]_vars

\* The program goes on from its start by itself; the user, asked about a
\* speaker (for the name or for the confirmation of a skip), at some time
\* enters a name or confirms the skip.
LabelFairness ==
    /\ WF_vars(LabelMain)
    /\ WF_vars(EnterName \/ ConfirmSkip)

SpecLabelFair == InitLabel /\ [][NextLabel]_vars /\ LabelFairness

(***************************************************************************)
(* Properties of the merge stage (SpecMerge)                               *)
(***************************************************************************)
Merged == output[1]

NonEmptyInputs ==
    /\ "segments" \in DOMAIN diarization
    /\ "segments" \in DOMAIN transcription
    /\ diarization.segments # <<>>
    /\ transcription.segments # <<>>

\* C1: for non-empty speaker-interval and text-segment collections the merge
\* completes, and the merged segments are as many as the text segments, the
\* i-th carrying the start, end and text of the i-th text segment, with
\* exactly one speaker_id (a string) beside them.
MergePreservesTextSegments ==
    NonEmptyInputs =>
        /\ pc # "failed"
        /\ pc = "done" =>
             /\ Len(output) = 1
             /\ Len(Merged.segments) = Len(transcription.segments)
             /\ \A i \in 1..Len(Merged.segments) :
                  /\ DOMAIN Merged.segments[i] = {"speaker_id", "start", "end", "text"}
                  /\ Merged.segments[i].start = transcription.segments[i].start
                  /\ Merged.segments[i].end = transcription.segments[i].end
                  /\ Merged.segments[i].text = transcription.segments[i].text
                  /\ Merged.segments[i].speaker_id \in Speakers \cup {UNKNOWN}

\* two different text segments merged against two speaker intervals
MergedTwoSegments ==
    /\ pc = "done"
    /\ NonEmptyInputs
    /\ Len(diarization.segments) = 2
    /\ Len(Merged.segments) = 2
    /\ transcription.segments[1] # transcription.segments[2]
    /\ Merged.segments[1].speaker_id # Merged.segments[2].speaker_id

\* C2: once the merge stage has run on an empty (or absent) speaker-interval
\* collection or an empty (or absent) text-segment collection, it has failed
\* (exit code 1) and has written no document.
EmptyCollectionFails ==
    (pc # "start" /\ (NoSegments(diarization) \/ NoSegments(transcription)))
        => (pc = "failed" /\ output = <<>>)

\* C3: in the document the merge stage wrote (here: from non-empty
\* collections), num_speakers is the number of distinct speaker_id values
\* among its segments.
NumSpeakersCountsDistinctIds ==
    (pc = "done" /\ NonEmptyInputs) =>
        Merged.num_speakers = Cardinality(SpeakerIds(Merged.segments))

\* the segments of one speaker, in document order
OwnSegments(segments, speaker) ==
    SelectSeq(segments, LAMBDA seg : seg.speaker_id = speaker)

\* 0.0 + (end - start) + (end - start) + ... over segs, left to right
RECURSIVE SumOfDurations(_)
SumOfDurations(segs) ==
    IF segs = <<>> THEN Zero
    ELSE PyAdd(SumOfDurations(SubSeq(segs, 1, Len(segs) - 1)),
               Duration(segs[Len(segs)]))

\* C4: in the document the merge stage wrote, speaker_stats has exactly the
\* distinct speaker_id values of segments as its keys, and for each of them
\* total_time is the sum of (end - start) over that speaker's segments (float
\* additions in document order) and segment_count is how many they are:
\* recomputing the stats from the segments gives the stored stats.
StatsRecomputeFromSegments ==
    pc = "done" =>
        /\ DOMAIN Merged.speaker_stats = SpeakerIds(Merged.segments)
        /\ \A k \in DOMAIN Merged.speaker_stats :
             /\ Merged.speaker_stats[k].total_time
                  = SumOfDurations(OwnSegments(Merged.segments, k))
             /\ Merged.speaker_stats[k].segment_count
                  = Len(OwnSegments(Merged.segments, k))

\* one speaker has two segments of positive length, so total_time is a sum
SpeakerWithTwoSegments ==
    /\ pc = "done"
    /\ \E k \in DOMAIN Merged.speaker_stats :
         /\ Merged.speaker_stats[k].segment_count = 2
         /\ \A i \in 1..2 : Merged.segments[i].start < Merged.segments[i].end

(***************************************************************************)
(* Properties of label resolution (SpecResolve)                            *)
(***************************************************************************)
\* C5: get_speaker_name returns for every speaker_id and labels mapping (the
\* call is always possible); it returns labels[speaker_id].name when
\* speaker_id is a key of labels (speaker_id itself when that entry carries
\* no name), speaker_id itself when it is no key, and the labels mapping is
\* after the call what it was before.
ResolutionTotalAndPure ==
    /\ pc = "start" => ENABLED ResolveName
    /\ pc = "done" =>
         /\ resolved.labels = labels
         /\ speaker_id \notin DOMAIN labels => resolved.name = speaker_id
         /\ speaker_id \in DOMAIN labels =>
              IF "name" \in DOMAIN labels[speaker_id]
              THEN resolved.name = labels[speaker_id].name
              ELSE resolved.name = speaker_id

\* a labelled id resolved to a name other than the id
ResolvedLabelledId ==
    /\ pc = "done"
    /\ speaker_id \in DOMAIN labels
    /\ resolved.name \in {"Alice", "Bob"}

(***************************************************************************)
(* Properties of rendering (SpecApply)                                     *)
(***************************************************************************)
Rendering(fmts) == pc = "done" /\ format \in fmts

\* the segments whose trimmed text is not empty, in order
Surviving == SelectSeq(data.segments, Survives)

\* entries emitted: blocks and continuations (txt, md), entries (json), cues
\* of four lines (srt), cues of three lines after the two header lines (vtt)
Emitted ==
    CASE format \in {"txt", "md", "json"} -> Len(lines)
      [] format = "srt" -> Len(lines) \div 4
      [] format = "vtt" -> (Len(lines) - 2) \div 3

\* C6: in each of the five formats the entries emitted are as many as the
\* segments whose trimmed text is not empty.
EmptyTextDropped ==
    Rendering(Formats) => Emitted = Len(Surviving)

\* C7: the srt cues are numbered 1, 2, ..., k, k the number of segments whose
\* trimmed text is not empty.
SrtCuesContiguous ==
    Rendering({"srt"}) =>
        /\ Len(lines) = 4 * Len(Surviving)
        /\ \A j \in 1..Len(Surviving) : lines[4 * j - 3] = Digits(j)

DisplayName(seg) == get_speaker_name(seg.speaker_id, LabelsOf(data)).name

\* survivor j starts a block: it is the first, or its name is not the name
\* of the survivor before it
StartsBlock(segs, j) ==
    j = 1 \/ DisplayName(segs[j]) # DisplayName(segs[j - 1])

Attributed(seg) ==
    IF format = "md"
    THEN "\n**" \o DisplayName(seg) \o "**: " \o Strip(seg.text)
    ELSE "\n[" \o DisplayName(seg) \o "] " \o Strip(seg.text)

ExpectedLines(segs) ==
    [j \in 1..Len(segs) |->
        IF StartsBlock(segs, j) THEN Attributed(segs[j]) ELSE Strip(segs[j].text)]

\* blocks of the transcript written: an attributed block begins with the
\* newline the renderer puts before it, the first one at the start of the text
Blocks == Cardinality({j \in 1..Len(lines) : Char(lines[j], 1) = "\n"})

SpeakerChanges(segs) ==
    Cardinality({j \in 2..Len(segs) : DisplayName(segs[j]) # DisplayName(segs[j - 1])})

BlocksFollowNames ==
    /\ lines = ExpectedLines(Surviving)
    /\ output[1] = Strip(Join(ExpectedLines(Surviving), " "))

\* C8 as stated: in txt and md an attributed block starts exactly at a
\* surviving segment whose display name differs from that of the surviving
\* segment before it, any other surviving segment adds its text alone, and
\* the blocks are 1 plus the speaker changes.
BlocksAreOnePlusChanges ==
    Rendering({"txt", "md"}) =>
        /\ BlocksFollowNames
        /\ Blocks = 1 + SpeakerChanges(Surviving)

\* C8, amended: as above, and the blocks are 1 plus the speaker changes when
\* at least one segment survives, none when no segment survives.
BlocksPerSpeakerChange ==
    Rendering({"txt", "md"}) =>
        /\ BlocksFollowNames
        /\ Blocks = IF Surviving = <<>> THEN 0
                    ELSE 1 + SpeakerChanges(Surviving)

\* three segments, the blank one in the middle dropped, the other two under
\* one display name (of two ids) in one block
OneBlockAcrossBlank ==
    /\ Rendering({"txt", "md"})
    /\ Len(data.segments) = 3
    /\ ~Survives(data.segments[2])
    /\ Len(Surviving) = 2
    /\ Surviving[1].speaker_id # Surviving[2].speaker_id
    /\ Blocks = 1

BadTime(seg) ==
    \/ ~HasTimes(seg)
    \/ HasTimes(seg) /\ (seg.start < 0 \/ seg.end < 0)

\* C9: once a document with a surviving segment whose start or end is
\* negative or missing has been rendered to srt or vtt, the stage has failed.
BadTimestampFails ==
    (pc # "start" /\ format \in {"srt", "vtt"}
        /\ \E i \in 1..Len(Surviving) : BadTime(Surviving[i]))
      => pc = "failed"

(***************************************************************************)
(* Properties of the timestamp formatters (SpecFormat)                     *)
(***************************************************************************)
MilliPerMin == SecPerMin * MilliPerSec
MilliPerHour == SecPerHour * MilliPerSec

WholeMillis(t, sep) ==
    PadInt(t \div MilliPerHour, 2) \o ":"
        \o PadInt((t % MilliPerHour) \div MilliPerMin, 2) \o ":"
        \o PadInt((t % MilliPerMin) \div MilliPerSec, 2) \o sep
        \o PadInt(t % MilliPerSec, 3)

\* C10: for a time of t whole milliseconds, t >= 0, both formatters give
\* hours t div 3600000, minutes (t mod 3600000) div 60000, seconds
\* (t mod 60000) div 1000 and millis t mod 1000, padded to 2, 2, 2 and 3
\* digits, with "," before the millis in srt and "." in vtt.
TimestampOfWholeMillis ==
    pc = "done" =>
        /\ stamps.srt = WholeMillis(seconds, ",")
        /\ stamps.vtt = WholeMillis(seconds, ".")

(***************************************************************************)
(* Properties of speaker lookup (SpecMerge, SpecFind)                      *)
(***************************************************************************)
Contains(segment, t) == segment.start <= t /\ t <= segment.end

\* C16: a merged segment whose text segment starts (start <= t <= end, both
\* bounds included) within some speaker interval carries the speaker_id of
\* the first such interval in the order given, whatever the order and the
\* overlaps; the start of the text segment decides, not its end.
FirstContainingInterval ==
    pc = "done" =>
        \A i \in 1..Len(Merged.segments) :
            \A j \in 1..Len(diarization.segments) :
                ( /\ Contains(diarization.segments[j], transcription.segments[i].start)
                  /\ \A h \in 1..(j - 1) :
                       ~Contains(diarization.segments[h],
                                 transcription.segments[i].start) )
                  => Merged.segments[i].speaker_id
                        = diarization.segments[j].speaker_id

\* a text segment starting on the end of the first interval, inside the
\* second interval of another speaker too, and ending in neither
StartOnSharedBoundary ==
    /\ pc = "done"
    /\ Len(diarization.segments) = 2
    /\ diarization.segments[1].speaker_id # diarization.segments[2].speaker_id
    /\ \E i \in 1..Len(Merged.segments) :
         /\ transcription.segments[i].start = diarization.segments[1].end
         /\ Contains(diarization.segments[2], transcription.segments[i].start)
         /\ ~Contains(diarization.segments[1], transcription.segments[i].end)
         /\ ~Contains(diarization.segments[2], transcription.segments[i].end)
         /\ Merged.segments[i].speaker_id = diarization.segments[1].speaker_id

NoneContains ==
    /\ find_args.speaker_segments # <<>>
    /\ \A j \in 1..Len(find_args.speaker_segments) :
         ~Contains(find_args.speaker_segments[j], find_args.timestamp)

DistanceTo(j) == Distance(find_args.timestamp, find_args.speaker_segments[j])

\* C17: for a timestamp within no interval of a non-empty list, the
\* speaker_id returned is that of an interval at minimum boundary distance
\* (start - t before the interval, t - end after it, as the float
\* subtraction gives it), the first in the given order among those at that
\* distance.
NearestIntervalFirstOnTies ==
    (pc = "done" /\ NoneContains) =>
        \E j \in 1..Len(find_args.speaker_segments) :
            /\ found = find_args.speaker_segments[j].speaker_id
            /\ \A h \in 1..Len(find_args.speaker_segments) :
                 ~LessFloat(DistanceTo(h), DistanceTo(j))
            /\ \A h \in 1..(j - 1) : LessFloat(DistanceTo(j), DistanceTo(h))

\* the timestamp lies between two intervals of different speakers at one
\* distance from both, and the earlier one in the list is returned
TieBetweenTwoSpeakers ==
    /\ pc = "done"
    /\ NoneContains
    /\ \E j, h \in 1..Len(find_args.speaker_segments) :
         /\ j < h
         /\ DistanceTo(j) = DistanceTo(h)
         /\ find_args.speaker_segments[j].end < find_args.timestamp
         /\ find_args.timestamp < find_args.speaker_segments[h].start
         /\ \A g \in 1..Len(find_args.speaker_segments) :
              ~LessFloat(DistanceTo(g), DistanceTo(j))
         /\ find_args.speaker_segments[j].speaker_id
              # find_args.speaker_segments[h].speaker_id
         /\ found = find_args.speaker_segments[j].speaker_id

(***************************************************************************)
(* Properties of sample selection (SpecSamples)                            *)
(***************************************************************************)
\* positions in the document of the speaker's segments with non-empty
\* trimmed text
Quotable ==
    {i \in 1..Len(data.segments) :
        /\ data.segments[i].speaker_id = speaker_id
        /\ Strip(data.segments[i].text) # ""}

\* the position in Quotable with exactly n positions of Quotable before it
NthQuotable(n) ==
    CHOOSE i \in Quotable : Cardinality({j \in Quotable : j < i}) = n

PositionalCall == pc = "done" /\ ~random_samples /\ num_samples = 3

\* C19: the positional selection with num_samples = 3 returns, of the
\* speaker's segments with non-empty trimmed text, the first, the one at
\* index count // 2 and the last, in that order (three different segments in
\* document order) when they are 3 or more, and all of them in document order
\* when they are fewer (none when there is none).
FirstMiddleLast ==
    PositionalCall =>
        IF Cardinality(Quotable) >= 3
        THEN /\ samples = << data.segments[NthQuotable(0)],
                            data.segments[NthQuotable(Cardinality(Quotable) \div 2)],
                            data.segments[NthQuotable(Cardinality(Quotable) - 1)] >>
             /\ samples[1].start < samples[2].start
             /\ samples[2].start < samples[3].start
        ELSE /\ Len(samples) = Cardinality(Quotable)
             /\ \A n \in 1..Len(samples) :
                  samples[n] = data.segments[NthQuotable(n - 1)]

\* four quotable segments of the speaker among five: the middle one is the
\* third of the four
ThreeOfFive ==
    /\ PositionalCall
    /\ Cardinality(Quotable) = 4
    /\ Len(data.segments) = 5
    /\ samples[2] = data.segments[NthQuotable(2)]

(***************************************************************************)
(* Further properties of rendering (SpecApply)                             *)
(***************************************************************************)
\* the line txt / md rendering emitted for the surviving segment at
\* position j of the document
LineOf(j) == lines[Cardinality({h \in 1..j : Survives(data.segments[h])})]

\* C20: in txt and md, of two surviving segments with none but dropped
\* segments between them, the later one continues the block of the earlier
\* one (its line is its bare text) exactly when both resolve to the same
\* display name, whatever their speaker_ids and whatever the speakers of the
\* dropped segments between them.
GroupingKeyedOnEmittedName ==
    Rendering({"txt", "md"}) =>
        \A i, j \in 1..Len(data.segments) :
            ( /\ i < j
              /\ Survives(data.segments[i])
              /\ Survives(data.segments[j])
              /\ \A h \in (i + 1)..(j - 1) : ~Survives(data.segments[h]) )
              => ( DisplayName(data.segments[i]) = DisplayName(data.segments[j])
                     <=> LineOf(j) = Strip(data.segments[j].text) )

\* a blank segment of a speaker with another display name between two
\* segments of one speaker, which stay in one block
BlankOfOtherSpeakerBetween ==
    /\ Rendering({"txt", "md"})
    /\ Len(data.segments) = 3
    /\ Survives(data.segments[1])
    /\ ~Survives(data.segments[2])
    /\ Survives(data.segments[3])
    /\ data.segments[1].speaker_id = data.segments[3].speaker_id
    /\ DisplayName(data.segments[2]) # DisplayName(data.segments[1])
    /\ Len(lines) = 2
    /\ lines[2] = Strip(data.segments[3].text)

\* the TranscriptDocument the fields of a json rendering give back: the
\* metadata it carries a value for, each entry without the resolved name,
\* and the labels
Reconstructed(rendering) ==
    [k \in {key \in {"audio_file", "duration", "language", "num_speakers"} :
               rendering[key] # <<>>} |-> rendering[k][1]]
      @@ [segments |-> [i \in 1..Len(rendering.segments) |->
                           [k \in DOMAIN rendering.segments[i] \ {"speaker"} |->
                               rendering.segments[i][k]]],
          labels   |-> rendering.labels]

\* C15: the json rendering has one entry per segment, in order, with the raw
\* speaker_id, start, end and text beside the resolved name, it has the whole
\* labels mapping, and the document rendered is got back from it.
JsonReversible ==
    Rendering({"json"}) =>
        /\ Len(output[1].segments) = Len(data.segments)
        /\ \A i \in 1..Len(data.segments) :
             /\ output[1].segments[i].speaker = DisplayName(data.segments[i])
             /\ \A k \in {"speaker_id", "start", "end", "text"} :
                  output[1].segments[i][k] = data.segments[i][k]
        /\ output[1].labels = LabelsOf(data)
        /\ Reconstructed(output[1]) = data

(***************************************************************************)
(* Properties of the label stage (SpecLabel)                               *)
(***************************************************************************)
\* the run was ended by an interrupt at a prompt
Interrupted == pc = "failed" /\ speakers # <<>>

\* the documents there are once the run has ended: the input file and what
\* was written
Documents == {diarized_file} \cup {output[i] : i \in 1..Len(output)}

\* speaker_id has the entry the input file gave it, or none
NothingCommittedFor(sid) ==
    IF sid \in DOMAIN SessionLabels(diarized_file)
    THEN sid \in DOMAIN labels /\ labels[sid] = SessionLabels(diarized_file)[sid]
    ELSE sid \notin DOMAIN labels

\* C11: after an interrupt at the prompt for speaker k no entry has been
\* committed for k, and the entries committed in the session for the
\* speakers before k are in the document's labels.
AbortKeepsCommitted ==
    Interrupted =>
        /\ NothingCommittedFor(speaker_id)
        /\ \E doc \in Documents :
             \A j \in 1..(Position - 1) :
                /\ speakers[j] \in DOMAIN LabelsOf(doc)
                /\ LabelsOf(doc)[speakers[j]] = labels[speakers[j]]

\* C12: the output document is written at most once in a run, as the whole
\* document at the end of the run (exit code 0); an interrupt ends the run
\* with exit code 1 and nothing written.
WrittenOnceAndWhole ==
    [][ /\ output' # output =>
             /\ output = <<>>
             /\ pc' = "done"
             /\ output' = <<data'>>
             /\ DOMAIN diarized_file \subseteq DOMAIN data'
             /\ data'.segments = diarized_file.segments
        /\ (pc \in {"prompt", "confirm"} /\ pc' \notin {"prompt", "confirm", "done"})
             => (pc' = "failed" /\ output' = <<>>)
        /\ pc' = "failed" => output' = <<>>
      ]_vars

\* interrupted at the second speaker, after an entry for the first
InterruptedAfterCommit ==
    /\ Interrupted
    /\ Position = 2
    /\ speakers[1] \in DOMAIN labels
    /\ labels[speakers[1]] = Manual("Alice")
    /\ output = <<>>

\* C13: when the prompt loop has ended and the document was returned (and
\* saved), every distinct speaker_id of its segments has an entry in its
\* labels, of source manual or skipped.
EverySpeakerLabeled ==
    (pc = "done" /\ ~non_interactive) =>
        \A sid \in SpeakerIds(output[1].segments) :
            /\ sid \in DOMAIN LabelsOf(output[1])
            /\ LabelsOf(output[1])[sid].source \in {"manual", "skipped"}

\* a file without labels, its two speakers labelled, one by name and one
\* skipped
NamedAndSkipped ==
    /\ pc = "done"
    /\ ~non_interactive
    /\ "labels" \notin DOMAIN diarized_file
    /\ Len(speakers) = 2
    /\ output[1].labels[speakers[1]].source = "manual"
    /\ output[1].labels[speakers[2]] = Skipped(speakers[2])

\* the step assigned labels[speaker_id]: a name was entered, or a skip
\* confirmed
ExplicitCommit ==
    \/ /\ pc = "prompt"
       /\ Strip(response') # ""
       /\ labels'[speaker_id] = Manual(Strip(response'))
    \/ /\ pc = "confirm"
       /\ Lower(Strip(response')) = "y"
       /\ labels'[speaker_id] = Skipped(speaker_id)

\* C14: the session starts from the labels of the input; an entry of the
\* mapping is never dropped and changes only in the step that commits a name
\* or a confirmed skip for that same speaker_id; the labels written are the
\* labels so kept, and in non-interactive mode the document written is the
\* input.
ExistingLabelsKept ==
    [][ /\ (pc = "start" /\ pc' = "prompt") => labels' = LabelsOf(diarized_file)
        /\ pc \in {"prompt", "confirm"} =>
             \A sid \in DOMAIN labels :
                /\ sid \in DOMAIN labels'
                /\ labels'[sid] # labels[sid] => (sid = speaker_id /\ ExplicitCommit)
        /\ pc' = "done" =>
             IF non_interactive THEN output' = <<diarized_file>>
             ELSE LabelsOf(output'[1]) = labels'
      ]_vars

\* a re-run on a labelled file: one entry replaced by a new name, the entry
\* of a speaker without segments as it was
RelabelledOneKeptOther ==
    /\ pc = "done"
    /\ ~non_interactive
    /\ "SPEAKER_09" \in DOMAIN LabelsOf(diarized_file)
    /\ output[1].labels["SPEAKER_09"] = diarized_file.labels["SPEAKER_09"]
    /\ "SPEAKER_00" \in DOMAIN SessionLabels(diarized_file)
    /\ output[1].labels["SPEAKER_00"] = Manual("Alice")

\* the loop went on from speaker_id: to the next speaker, or to the end
Advanced ==
    IF Position < Len(speakers)
    THEN pc' = "prompt" /\ speaker_id' = speakers[Position + 1]
    ELSE pc' = "done"

Stayed(at) == pc' = at /\ speaker_id' = speaker_id /\ labels' = labels /\ output' = output

\* C18: at the prompt for a speaker, show-more ('m') commits nothing, shows
\* a random-mode sample and prompts for the same speaker; an empty response
\* commits nothing and asks for the skip confirmation; any other response
\* commits [name, source manual] for the speaker and goes on; at the skip
\* confirmation 'y' commits [name = speaker_id, source skipped] and goes on,
\* any other answer commits nothing and prompts for the same speaker.
PromptTransitions ==
    [][ /\ (pc = "prompt" /\ pc' # "failed") =>
             CASE Lower(Strip(response')) = "m" ->
                    /\ Stayed("prompt")
                    /\ samples' \in SamplesOf(QuotableSegments(data, speaker_id), 5, TRUE)
               [] Strip(response') = "" -> Stayed("confirm")
               [] OTHER ->
                    /\ labels' = Put(labels, speaker_id, Manual(Strip(response')))
                    /\ Advanced
        /\ (pc = "confirm" /\ pc' # "failed") =>
             IF Lower(Strip(response')) = "y"
             THEN /\ labels' = Put(labels, speaker_id, Skipped(speaker_id))
                  /\ Advanced
             ELSE Stayed("prompt")
      ]_vars

\* at the prompt for the second speaker again, after the first was skipped
\* on confirmation and a skip of the second was declined
SkippedThenDeclined ==
    /\ pc = "prompt"
    /\ Position = 2
    /\ labels[speakers[1]] = Skipped(speakers[1])
    /\ speakers[2] \notin DOMAIN labels
    /\ response = "n"

(***************************************************************************)
(* Order and termination of the label stage (SpecLabelFair)                *)
(***************************************************************************)
\* the speaker_ids of the segments of the file
FileSpeakers == SpeakerIds(diarized_file.segments)

\* the ids that come after sid in the order of the strings
After(sid) == {s \in FileSpeakers : StrLess(sid, s)}

\* the first of a set of ids in the order of the strings
Least(S) == CHOOSE s \in S : \A t \in S : s = t \/ StrLess(s, t)

\* the step assigned an entry to the speaker it asked about
Commits == speaker_id \in DOMAIN labels' /\ ExplicitCommit

\* the first speaker asked about is the least id of the file; the loop
\* leaves a speaker exactly in the step that commits its entry, for the
\* least id after it, or for the end when there is none
VisitsAscending ==
    [][ /\ (pc = "start" /\ pc' = "prompt") => speaker_id' = Least(FileSpeakers)
        /\ pc \in {"prompt", "confirm"} =>
             /\ Commits <=> (speaker_id' # speaker_id \/ pc' = "done")
             /\ speaker_id' # speaker_id =>
                  /\ pc' = "prompt"
                  /\ After(speaker_id) # {}
                  /\ speaker_id' = Least(After(speaker_id))
             /\ pc' = "done" => After(speaker_id) = {}
      ]_vars

\* at every prompt an answer that keeps the loop at the same speaker can be
\* given: show-more or an empty line at the name prompt, a declined skip at
\* the confirmation
CanStayOnSpeaker ==
    [](/\ pc = "prompt" => (ENABLED ShowMore /\ ENABLED EmptyResponse)
       /\ pc = "confirm" => ENABLED DeclineSkip)

\* every speaker of the file has an entry in the document written
AllSpeakersLabeled ==
    /\ pc = "done"
    /\ FileSpeakers \subseteq DOMAIN LabelsOf(output[1])

\* a run that is not interrupted goes from every prompt to the end
ReachesAllLabeled ==
    []~Interrupted => ((pc \in {"prompt", "confirm"}) ~> AllSpeakersLabeled)

\* C21: the workflow asks about the distinct speaker_ids in ascending order
\* of the strings, each once: it leaves a speaker only by committing its
\* entry and then goes to the next greater id, never back.  When the user
\* at some time enters a name or confirms a skip for each speaker, the
\* workflow reaches the state where all speakers are labelled; an answer
\* that keeps it at the same speaker is possible at every prompt, so
\* without that assumption it may ask about one speaker forever.
OrderedVisitsAndTermination ==
    /\ VisitsAscending
    /\ CanStayOnSpeaker
    /\ ReachesAllLabeled

\* the second speaker of a file is asked about after show-more and a
\* declined skip; the file names the greater id first
SecondSpeakerAfterStaying ==
    /\ pc = "prompt"
    /\ diarized_file.segments[1].speaker_id = "SPEAKER_01"
    /\ speakers = <<"SPEAKER_00", "SPEAKER_01">>
    /\ speaker_id = "SPEAKER_01"
    /\ "SPEAKER_00" \in DOMAIN labels
    /\ Lower(Strip(response)) = "m"

====
